---- MODULE Spec2Model ----
(***************************************************************************)
(* The versioned file-upload state machine of the osfstorage addon         *)
(* (website/addons/osfstorage/views.py).  The webhook handlers are         *)
(* translated from views.py; the FileRecord methods they call live in      *)
(* website/addons/osfstorage/model.py and are modelled from their          *)
(* documented contract.  Each request is served by a worker; a handler     *)
(* is split at its accesses to the record store, which are the points      *)
(* where concurrent requests interleave.                                   *)
(***************************************************************************)
EXTENDS Integers, Sequences, FiniteSets, TLC

\* Longest version list explored for one record.
MaxVersions == 2
\* Most downloads counted for one file.
MaxDownloads == 2
\* Most session ids handed out.
MaxSessions == 2
\* Most calls of update_node_wiki.
MaxWikiCalls == 3

\* Concurrent request workers.
Procs == {1, 2}
\* File paths of the one node the addon is attached to.
Paths == {"a"}
\* Ids for which User.load finds a user.
Users == {"u1"}
\* Upload signature tokens.
Tokens == {"t1", "t2", "t3"}
\* Storage locations and metadata reported by the upload service.
Locations == {"L1"}
Metadatas == {"M1"}

\* A key absent from the JSON payload (payload[key] raises KeyError,
\* payload.get(key) gives None).
Missing == "<missing>"
\* A user id that matches no user.
UnknownUser == "ghost"
\* Python's None.
None == "None"

VARIABLES
    store,   \* persisted FileRecords, in creation order
    pc,      \* pc[p]: where worker p stands in the handler it is serving
    local,   \* local[p]: the handler's local variables between two steps
    resp,    \* resp[p]: the response to the last request worker p served,
             \* none while it serves one
    counters,   \* the download counters update_counter keeps
    request,    \* request[p]: the request worker p carries through
                \* before_request, the handler and after_request
    sessions,   \* the registry of sessions keyed by the current request
    session_db, \* the persisted Sessions, data by _id
    reply,      \* reply[p]: the response worker p is building; once
                \* sent, the redirect its client has still to follow
    wiki_pages, \* the node's wiki pages by key, each with its versions
    wiki_calls  \* how many times update_node_wiki was called

sessionvars == <<request, sessions, session_db, reply>>

wikivars == <<wiki_pages, wiki_calls>>

vars == <<store, pc, local, resp, counters,
          request, sessions, session_db, reply, wiki_pages, wiki_calls>>

----------------------------------------------------------------------------
(* Responses *)

\* views.py make_error: an HTTPError carrying {'status': 'error', 'reason'}.
make_error(code, reason) ==
    [code |-> code, status |-> "error", reason |-> reason]

\* HTTPError(code) raised without data.
HTTPError(code) == [code |-> code, status |-> "", reason |-> ""]

\* The {'status': 'success'} a handler returns.
Success == [code |-> "OK", status |-> "success", reason |-> ""]

\* An exception no handler catches (KeyError, IndexError): a server error.
Unhandled(exc) ==
    [code |-> "INTERNAL_SERVER_ERROR", status |-> "", reason |-> exc]

\* No response yet; also what a check that raises nothing yields.
NoResponse == [code |-> None, status |-> "", reason |-> ""]

\* What a worker holds when it serves no request.
NoLocal == [hook |-> None]

----------------------------------------------------------------------------
(* FileRecord and FileVersion (model.py) *)

PendingVersion(creator, signature) ==
    [status |-> "PENDING", creator |-> creator, signature |-> signature,
     location |-> None, metadata |-> None]

EmptyRecord(path) == [path |-> path, is_deleted |-> FALSE, versions |-> <<>>]

\* Indices of the versions of a record that are PENDING.
PendingIndices(record) ==
    {i \in 1..Len(record.versions) : record.versions[i].status = "PENDING"}

\* Tokens of the versions that have left PENDING.
ConsumedSignatures(record) ==
    {record.versions[i].signature :
        i \in {j \in 1..Len(record.versions) :
                  record.versions[j].status # "PENDING"}}

\* FileRecord.find_by_path: the index in the store of the record of `path`,
\* 0 for None.
find_by_path(path) ==
    LET S == {i \in 1..Len(store) : store[i].path = path}
    IN  IF S = {} THEN 0 ELSE CHOOSE i \in S : \A j \in S : i <= j

\* A get_or_create that creates a record without looking for one.
get_or_create_fresh(path) == Append(store, EmptyRecord(path))

\* FileRecord.get_or_create: the store after the call.
get_or_create(path) ==
    IF find_by_path(path) # 0 THEN store ELSE Append(store, EmptyRecord(path))

\* create_pending_version without the check for a pending version.
create_pending_version_unlocked(record, creator, signature) ==
    IF signature \in ConsumedSignatures(record)
    THEN [err |-> "SignatureConsumedError", record |-> record]
    ELSE [err |-> None,
          record |-> [record EXCEPT
              !.versions = Append(@, PendingVersion(creator, signature))]]

\* FileRecord.create_pending_version: the exception raised (None for none)
\* and the record as persisted.
create_pending_version(record, creator, signature) ==
    IF PendingIndices(record) # {}
    THEN [err |-> "PathLockedError", record |-> record]
    ELSE IF signature \in ConsumedSignatures(record)
    THEN [err |-> "SignatureConsumedError", record |-> record]
    ELSE [err |-> None,
          record |-> [record EXCEPT
              !.versions = Append(@, PendingVersion(creator, signature))]]

\* The checks resolve_pending_version and cancel_pending_version share, on
\* the record's current version, versions[-1].
PendingError(record, signature) ==
    IF Len(record.versions) = 0
    THEN "VersionNotPendingError"
    ELSE IF record.versions[Len(record.versions)].status # "PENDING"
    THEN "VersionNotPendingError"
    ELSE IF record.versions[Len(record.versions)].signature # signature
    THEN "PendingSignatureMismatchError"
    ELSE None

\* FileRecord.resolve_pending_version.
resolve_pending_version(record, signature, location, metadata) ==
    IF PendingError(record, signature) # None
    THEN [err |-> PendingError(record, signature), record |-> record]
    ELSE [err |-> None,
          record |-> [record EXCEPT
              !.versions[Len(record.versions)] =
                  [@ EXCEPT !.status = "COMPLETE",
                            !.location = location,
                            !.metadata = metadata]]]

\* FileRecord.cancel_pending_version.
cancel_pending_version(record, signature) ==
    IF PendingError(record, signature) # None
    THEN [err |-> PendingError(record, signature), record |-> record]
    ELSE [err |-> None,
          record |-> [record EXCEPT
              !.versions[Len(record.versions)] =
                  [@ EXCEPT !.status = "FAILED"]]]

\* A delete that drops the record's versions with the record.
delete_purge(record) ==
    IF record.is_deleted
    THEN [err |-> "DeleteError", record |-> record]
    ELSE [err |-> None,
          record |-> [record EXCEPT !.is_deleted = TRUE, !.versions = <<>>]]

\* FileRecord.delete: a soft delete; DeleteError on a record already deleted.
delete(record) ==
    IF record.is_deleted
    THEN [err |-> "DeleteError", record |-> record]
    ELSE [err |-> None, record |-> [record EXCEPT !.is_deleted = TRUE]]

----------------------------------------------------------------------------
(* Webhook payloads *)

\* get_payload_from_request accepting the payload whatever verify_payload
\* answers.
get_payload_from_request_unverified(verified) == NoResponse

\* get_payload_from_request: the error raised for a request whose HMAC
\* signature does not verify (verified: the outcome of verify_payload).
get_payload_from_request(verified) ==
    IF verified THEN NoResponse
    ELSE make_error("BAD_REQUEST", "Invalid signature")

\* validate_start_hook_payload: the error raised, none when the payload
\* names a known user and carries an upload signature.
validate_start_hook_payload(user_id, upload_signature) ==
    IF user_id = Missing \/ upload_signature = Missing
    THEN HTTPError("BAD_REQUEST")
    ELSE IF user_id \notin Users
    THEN HTTPError("BAD_REQUEST")
    ELSE NoResponse

----------------------------------------------------------------------------
(* osf_storage_upload_start_hook *)

\* The start hook with no except clause for PathLockedError taking effect:
\* the error is swallowed and the hook answers success.
start_hook_response_swallow(err) ==
    CASE err = "SignatureConsumedError" ->
            make_error("BAD_REQUEST", "Signature consumed")
      [] OTHER -> Success

\* The start hook with the two except clauses' errors exchanged.
start_hook_response_swapped(err) ==
    CASE err = "PathLockedError" ->
            make_error("BAD_REQUEST", "Signature consumed")
      [] err = "SignatureConsumedError" ->
            make_error("CONFLICT", "File path is locked")
      [] OTHER -> Success

\* The start hook without its except clause for SignatureConsumedError:
\* the error reaches no handler.
start_hook_response_uncaught(err) ==
    CASE err = "PathLockedError" -> make_error("CONFLICT", "File path is locked")
      [] err = "SignatureConsumedError" -> Unhandled("SignatureConsumedError")
      [] OTHER -> Success

\* The except clauses of the start hook: the response for the outcome of
\* create_pending_version.
start_hook_response(err) ==
    CASE err = "PathLockedError" -> make_error("CONFLICT", "File path is locked")
      [] err = "SignatureConsumedError" ->
            make_error("BAD_REQUEST", "Signature consumed")
      [] OTHER -> Success

Respond(p, r) ==
    /\ resp' = [resp EXCEPT ![p] = r]
    /\ pc' = [pc EXCEPT ![p] = "idle"]
    /\ local' = [local EXCEPT ![p] = NoLocal]

\* The start hook calling get_or_create before it validates the payload.
StartHookRequest_create_first(p, path, verified, user_id, upload_signature) ==
    IF get_payload_from_request(verified) # NoResponse
    THEN /\ Respond(p, get_payload_from_request(verified))
         /\ UNCHANGED store
    ELSE IF validate_start_hook_payload(user_id, upload_signature)
               # NoResponse
    THEN /\ Respond(p, validate_start_hook_payload(user_id,
                                                  upload_signature))
         /\ store' = get_or_create(path)
    ELSE /\ store' = get_or_create(path)
         /\ pc' = [pc EXCEPT ![p] = "start_create"]
         /\ local' = [local EXCEPT ![p] =
                [hook |-> "start", path |-> path, user |-> user_id,
                 upload_signature |-> upload_signature]]
         /\ resp' = [resp EXCEPT ![p] = NoResponse]

\* Lines 88-91 for one request: payload checks, then get_or_create.
StartHookRequest(p, path, verified, user_id, upload_signature) ==
    IF get_payload_from_request(verified) # NoResponse
    THEN /\ Respond(p, get_payload_from_request(verified))
         /\ UNCHANGED store
    ELSE IF validate_start_hook_payload(user_id, upload_signature)
               # NoResponse
    THEN /\ Respond(p, validate_start_hook_payload(user_id,
                                                  upload_signature))
         /\ UNCHANGED store
    ELSE /\ store' = get_or_create(path)
         /\ pc' = [pc EXCEPT ![p] = "start_create"]
         /\ local' = [local EXCEPT ![p] =
                [hook |-> "start", path |-> path, user |-> user_id,
                 upload_signature |-> upload_signature]]
         /\ resp' = [resp EXCEPT ![p] = NoResponse]

\* The user ids and upload signatures a start payload may carry.
StartUsers == Users \cup {UnknownUser, Missing}
StartSignatures == Tokens \cup {Missing}

\* A worker takes a start webhook.  A request whose signature does not
\* verify is drawn with an empty payload.
StartHookBegin(p) ==
    /\ pc[p] = "idle"
    /\ \E path \in Paths :
          \/ \E user_id \in StartUsers, upload_signature \in StartSignatures :
                StartHookRequest(p, path, TRUE, user_id, upload_signature)
          \/ StartHookRequest(p, path, FALSE, Missing, Missing)

\* Lines 92-98: create_pending_version on the record, its errors mapped.
StartHookCreate(p) ==
    /\ pc[p] = "start_create"
    /\ LET i == find_by_path(local[p].path)
           r == create_pending_version(store[i], local[p].user,
                                       local[p].upload_signature)
       IN  /\ Len(r.record.versions) <= MaxVersions
           /\ store' = [store EXCEPT ![i] = r.record]
           /\ Respond(p, start_hook_response(r.err))

----------------------------------------------------------------------------
(* osf_storage_upload_finish_hook *)

\* handle_finish_errors answering success to a VersionNotPendingError.
handle_finish_errors_silent(err) ==
    CASE err = "PendingSignatureMismatchError" ->
            make_error("BAD_REQUEST", "Invalid upload signature")
      [] err = "KeyError" -> Unhandled("KeyError")
      [] OTHER -> Success

\* handle_finish_errors with the reasons of its two clauses exchanged.
handle_finish_errors_swapped(err) ==
    CASE err = "VersionNotPendingError" ->
            make_error("BAD_REQUEST", "Invalid upload signature")
      [] err = "PendingSignatureMismatchError" ->
            make_error("BAD_REQUEST", "No pending upload")
      [] err = "KeyError" -> Unhandled("KeyError")
      [] OTHER -> Success

\* handle_finish_errors without its clause for VersionNotPendingError.
handle_finish_errors_uncaught(err) ==
    CASE err = "VersionNotPendingError" -> Unhandled("VersionNotPendingError")
      [] err = "PendingSignatureMismatchError" ->
            make_error("BAD_REQUEST", "Invalid upload signature")
      [] err = "KeyError" -> Unhandled("KeyError")
      [] OTHER -> Success

\* handle_finish_errors: the response for the outcome of a model method.
handle_finish_errors(err) ==
    CASE err = "VersionNotPendingError" ->
            make_error("BAD_REQUEST", "No pending upload")
      [] err = "PendingSignatureMismatchError" ->
            make_error("BAD_REQUEST", "Invalid upload signature")
      [] err = "KeyError" -> Unhandled("KeyError")
      [] OTHER -> Success

\* finish_upload_success passing metadata and location in each other's
\* place.
finish_upload_success_swapped(file_record, payload) ==
    IF Missing \in {payload.uploadSignature, payload.location,
                    payload.metadata}
    THEN [err |-> "KeyError", record |-> file_record]
    ELSE resolve_pending_version(file_record, payload.uploadSignature,
                                 payload.metadata, payload.location)

\* finish_upload_success: payload[...] raises KeyError for an absent key
\* before resolve_pending_version is called.
finish_upload_success(file_record, payload) ==
    IF Missing \in {payload.uploadSignature, payload.location,
                    payload.metadata}
    THEN [err |-> "KeyError", record |-> file_record]
    ELSE resolve_pending_version(file_record, payload.uploadSignature,
                                 payload.location, payload.metadata)

\* finish_upload_error cancelling whatever version is pending, with that
\* version's own signature instead of the payload's.
finish_upload_error_any(file_record, payload) ==
    IF payload.uploadSignature = Missing
    THEN [err |-> "KeyError", record |-> file_record]
    ELSE IF Len(file_record.versions) = 0
    THEN cancel_pending_version(file_record, payload.uploadSignature)
    ELSE cancel_pending_version(file_record,
             file_record.versions[Len(file_record.versions)].signature)

\* finish_upload_error answering success without cancelling the version.
finish_upload_error_noop(file_record, payload) ==
    IF payload.uploadSignature = Missing
    THEN [err |-> "KeyError", record |-> file_record]
    ELSE [err |-> cancel_pending_version(file_record,
                                         payload.uploadSignature).err,
          record |-> file_record]

\* finish_upload_error.
finish_upload_error(file_record, payload) ==
    IF payload.uploadSignature = Missing
    THEN [err |-> "KeyError", record |-> file_record]
    ELSE cancel_pending_version(file_record, payload.uploadSignature)

\* The finish hook resolving whatever the status.
finish_dispatch_resolve(file_record, payload) ==
    finish_upload_success(file_record, payload)

\* Lines 157-159: the handler chosen by the payload's status.
finish_dispatch(file_record, payload) ==
    IF payload.status = "success"
    THEN finish_upload_success(file_record, payload)
    ELSE finish_upload_error(file_record, payload)

\* The status field of a finish payload.
Statuses == {"success", "error", "bogus", Missing}

\* Finish payloads of the upload service with a given status: only a
\* success report carries a location and metadata.
FinishPayloads(status) ==
    IF status = "success"
    THEN [status : {status}, uploadSignature : Tokens \cup {Missing},
          location : Locations \cup {Missing},
          metadata : Metadatas \cup {Missing}]
    ELSE [status : {status}, uploadSignature : Tokens \cup {Missing},
          location : {Missing}, metadata : {Missing}]

\* The payload carries every key the handler of its status reads, so the
\* model method is called.
Carries(payload) ==
    /\ payload.uploadSignature # Missing
    /\ payload.status = "success" =>
          payload.location # Missing /\ payload.metadata # Missing

\* The finish hook looking the record up before it checks the status.
FinishHookRequest_lookup_first(p, path, verified, payload) ==
    IF get_payload_from_request(verified) # NoResponse
    THEN /\ Respond(p, get_payload_from_request(verified))
         /\ UNCHANGED store
    ELSE IF find_by_path(path) = 0
    THEN /\ Respond(p, HTTPError("NOT_FOUND"))
         /\ UNCHANGED store
    ELSE IF payload.status \notin {"success", "error"}
    THEN /\ Respond(p, make_error("BAD_REQUEST", "Invalid status"))
         /\ UNCHANGED store
    ELSE /\ pc' = [pc EXCEPT ![p] = "finish_apply"]
         /\ local' = [local EXCEPT ![p] =
                [hook |-> "finish", path |-> path, payload |-> payload]]
         /\ resp' = [resp EXCEPT ![p] = NoResponse]
         /\ UNCHANGED store

\* The finish hook obtaining its record with get_or_create.
FinishHookRequest_get_or_create(p, path, verified, payload) ==
    IF get_payload_from_request(verified) # NoResponse
    THEN /\ Respond(p, get_payload_from_request(verified))
         /\ UNCHANGED store
    ELSE IF payload.status \notin {"success", "error"}
    THEN /\ Respond(p, make_error("BAD_REQUEST", "Invalid status"))
         /\ UNCHANGED store
    ELSE /\ pc' = [pc EXCEPT ![p] = "finish_apply"]
         /\ local' = [local EXCEPT ![p] =
                [hook |-> "finish", path |-> path, payload |-> payload]]
         /\ resp' = [resp EXCEPT ![p] = NoResponse]
         /\ store' = get_or_create(path)

\* Lines 149-156 for one request: payload and status checks, then
\* find_by_path.
FinishHookRequest(p, path, verified, payload) ==
    IF get_payload_from_request(verified) # NoResponse
    THEN /\ Respond(p, get_payload_from_request(verified))
         /\ UNCHANGED store
    ELSE IF payload.status \notin {"success", "error"}
    THEN /\ Respond(p, make_error("BAD_REQUEST", "Invalid status"))
         /\ UNCHANGED store
    ELSE IF find_by_path(path) = 0
    THEN /\ Respond(p, HTTPError("NOT_FOUND"))
         /\ UNCHANGED store
    ELSE /\ pc' = [pc EXCEPT ![p] = "finish_apply"]
         /\ local' = [local EXCEPT ![p] =
                [hook |-> "finish", path |-> path, payload |-> payload]]
         /\ resp' = [resp EXCEPT ![p] = NoResponse]
         /\ UNCHANGED store

\* A finish payload from which every key is absent.
EmptyPayload ==
    [status |-> Missing, uploadSignature |-> Missing,
     location |-> Missing, metadata |-> Missing]

\* The payloads of requests whose signature does not verify: an empty
\* one, and the well-formed reports of an upload.
UnverifiedPayloads ==
    {EmptyPayload}
    \cup [status : {"success"}, uploadSignature : Tokens,
          location : Locations, metadata : Metadatas]
    \cup [status : {"error"}, uploadSignature : Tokens,
          location : {Missing}, metadata : {Missing}]

\* A worker takes a finish webhook.  A request whose signature does not
\* verify is drawn with an empty payload.
FinishHookBegin(p) ==
    /\ pc[p] = "idle"
    /\ \E path \in Paths :
          \/ \E status \in Statuses : \E payload \in FinishPayloads(status) :
                FinishHookRequest(p, path, TRUE, payload)
          \/ FinishHookRequest(p, path, FALSE, EmptyPayload)

\* Lines 157-159: resolve or cancel the record's pending version.
FinishHookApply(p) ==
    /\ pc[p] = "finish_apply"
    /\ LET i == find_by_path(local[p].path)
           r == finish_dispatch(store[i], local[p].payload)
       IN  /\ store' = [store EXCEPT ![i] = r.record]
           /\ Respond(p, handle_finish_errors(r.err))

----------------------------------------------------------------------------
(* osf_storage_delete_file *)

\* Lines 313-315: find_by_path.
DeleteBegin(p) ==
    /\ pc[p] = "idle"
    /\ \E path \in Paths :
          IF find_by_path(path) = 0
          THEN /\ Respond(p, HTTPError("NOT_FOUND"))
               /\ UNCHANGED store
          ELSE /\ pc' = [pc EXCEPT ![p] = "delete_apply"]
               /\ local' = [local EXCEPT ![p] =
                      [hook |-> "delete", path |-> path]]
               /\ resp' = [resp EXCEPT ![p] = NoResponse]
               /\ UNCHANGED store

\* Lines 316-321: delete and save.
DeleteApply(p) ==
    /\ pc[p] = "delete_apply"
    /\ LET i == find_by_path(local[p].path)
           r == delete(store[i])
       IN  /\ store' = [store EXCEPT ![i] = r.record]
           /\ Respond(p, IF r.err = "DeleteError"
                         THEN HTTPError("NOT_FOUND") ELSE Success)

----------------------------------------------------------------------------
(* Reading a file version: get_version, used by osf_storage_view_file,
   osf_storage_download_file and osf_storage_render_file *)

\* UPLOAD_PENDING_ERROR built without its data: a bare not-found.
UPLOAD_PENDING_ERROR_bare == HTTPError("NOT_FOUND")

UPLOAD_PENDING_ERROR ==
    [code |-> "NOT_FOUND", status |-> "", reason |-> "File upload in progress"]

UPLOAD_FAILED_ERROR ==
    [code |-> "NOT_FOUND", status |-> "", reason |-> "File upload failed"]

\* What a read handler answers once get_version has returned a version.
Served == [code |-> "OK", status |-> "served", reason |-> ""]

\* Strings are sequences of characters.
Digits == <<"0", "1", "2", "3", "4", "5", "6", "7", "8", "9">>

IsDigit(c) == \E d \in 1..Len(Digits) : Digits[d] = c

DigitValue(c) == (CHOOSE d \in 1..Len(Digits) : Digits[d] = c) - 1

RECURSIVE DigitsValue(_)
DigitsValue(s) ==
    IF s = <<>> THEN 0
    ELSE 10 * DigitsValue(SubSeq(s, 1, Len(s) - 1)) + DigitValue(s[Len(s)])

\* Python's int(str): an optional sign, then one or more decimal digits;
\* anything else raises ValueError.
int(s) ==
    LET signed == s # <<>> /\ s[1] \in {"-", "+"}
        body == IF signed THEN Tail(s) ELSE s
    IN  IF body = <<>> \/ \E i \in 1..Len(body) : ~IsDigit(body[i])
        THEN [err |-> "ValueError", value |-> 0]
        ELSE [err |-> None,
              value |-> IF s[1] = "-" THEN 0 - DigitsValue(body)
                        ELSE DigitsValue(body)]

\* Python's str(int) for a natural number.
RECURSIVE str(_)
str(k) ==
    IF k < 10 THEN <<Digits[k + 1]>>
    ELSE Append(str(k \div 10), Digits[(k % 10) + 1])

\* Python's list[i]: a negative index counts from the end; IndexError
\* outside the list.
getitem(list, i) ==
    LET j == IF i < 0 THEN i + Len(list) ELSE i
    IN  IF j < 0 \/ j >= Len(list)
        THEN [err |-> "IndexError", index |-> 0]
        ELSE [err |-> None, index |-> j + 1]

\* parse_version_specifier without its check that the number is at least 1.
parse_version_specifier_unbounded(version_str) ==
    LET version_idx == int(version_str)
    IN  IF version_idx.err # None
        THEN [err |-> "InvalidVersionError", value |-> 0]
        ELSE [err |-> None, value |-> version_idx.value]

\* parse_version_specifier.
parse_version_specifier(version_str) ==
    LET version_idx == int(version_str)
    IN  IF version_idx.err # None
        THEN [err |-> "InvalidVersionError", value |-> 0]
        ELSE IF version_idx.value < 1
        THEN [err |-> "InvalidVersionError", value |-> 0]
        ELSE [err |-> None, value |-> version_idx.value]

\* handle_incomplete_version without its check for a FAILED version.
handle_incomplete_version_pending_only(file_version) ==
    IF file_version.status = "PENDING" THEN UPLOAD_PENDING_ERROR
    ELSE NoResponse

\* handle_incomplete_version: the error raised, none for a COMPLETE
\* version.
handle_incomplete_version(file_version) ==
    IF file_version.status = "PENDING" THEN UPLOAD_PENDING_ERROR
    ELSE IF file_version.status = "FAILED" THEN UPLOAD_FAILED_ERROR
    ELSE NoResponse

\* The version query parameter: request.args.get('version') is None when
\* the parameter is absent.
NoVersionQuery == [given |-> FALSE, str |-> <<>>]
VersionQuery(version_str) == [given |-> TRUE, str |-> version_str]

\* What get_version_helper and get_version yield: the error raised, or the
\* one-based index and the version.
NoVersion ==
    [status |-> None, creator |-> None, signature |-> None,
     location |-> None, metadata |-> None]
Raised(error) == [err |-> error, idx |-> 0, version |-> NoVersion]
Returned(idx, version) == [err |-> NoResponse, idx |-> idx, version |-> version]

\* get_version_helper reporting a zero-based index for the latest version.
get_version_helper_zero_based(file_record, query) ==
    IF ~query.given
    THEN LET last == getitem(file_record.versions, -1)
         IN  IF last.err # None
             THEN Raised(Unhandled("IndexError"))
             ELSE Returned(Len(file_record.versions) - 1,
                           file_record.versions[last.index])
    ELSE LET parsed == parse_version_specifier(query.str)
             item == getitem(file_record.versions, parsed.value - 1)
         IN  IF parsed.err # None
             THEN Raised(make_error("BAD_REQUEST", "Invalid version"))
             ELSE IF item.err # None
             THEN Raised(HTTPError("NOT_FOUND"))
             ELSE Returned(parsed.value, file_record.versions[item.index])

\* get_version_helper.
get_version_helper(file_record, query) ==
    IF ~query.given
    THEN LET last == getitem(file_record.versions, -1)
         IN  IF last.err # None
             THEN Raised(Unhandled("IndexError"))
             ELSE Returned(Len(file_record.versions),
                           file_record.versions[last.index])
    ELSE LET parsed == parse_version_specifier(query.str)
             item == getitem(file_record.versions, parsed.value - 1)
         IN  IF parsed.err # None
             THEN Raised(make_error("BAD_REQUEST", "Invalid version"))
             ELSE IF item.err # None
             THEN Raised(HTTPError("NOT_FOUND"))
             ELSE Returned(parsed.value, file_record.versions[item.index])

\* get_version.
get_version(path, query) ==
    IF find_by_path(path) = 0
    THEN Raised(HTTPError("NOT_FOUND"))
    ELSE LET found == get_version_helper(store[find_by_path(path)], query)
         IN  IF found.err # NoResponse
             THEN found
             ELSE LET incomplete == handle_incomplete_version(found.version)
                  IN  IF incomplete # NoResponse
                      THEN Raised(incomplete)
                      ELSE found

\* The version parameters requests carry: absent, the numbers up to one
\* past the longest version list, 99, and strings that are no positive
\* number.
VersionQueries ==
    {NoVersionQuery}
    \cup {VersionQuery(str(k)) : k \in 0..(MaxVersions + 1)}
    \cup {VersionQuery(s) : s \in {<<>>, <<"x">>, <<"1", "x">>, <<"-", "1">>,
                                   <<"9", "9">>}}

\* What a view, download or render request answers up to the return of
\* get_version: the error get_version raised, or the file served.
read_response(path, query) ==
    LET got == get_version(path, query)
    IN  IF got.err # NoResponse THEN got.err ELSE Served

\* A worker serves a view, download or render request.
ReadFile(p) ==
    /\ pc[p] = "idle"
    /\ \E path \in Paths :
          \E r \in {read_response(path, query) : query \in VersionQueries} :
             /\ Respond(p, r)
             /\ UNCHANGED store

----------------------------------------------------------------------------
(* osf_storage_download_file and update_analytics *)

\* The counters before any download: the per-file counter of each path and
\* the per-version counter of each one-based version index.
NoDownloads ==
    [file |-> [path \in Paths |-> 0],
     version |-> [key \in Paths \X (1..MaxVersions) |-> 0]]

\* update_analytics counting the file's download only.
update_analytics_file_only(c, path, version_idx) ==
    [c EXCEPT !.file[path] = @ + 1]

\* update_analytics: update_counter on the file's key and on the key of
\* the version.
update_analytics(c, path, version_idx) ==
    [c EXCEPT !.file[path] = @ + 1,
              !.version[<<path, version_idx>>] = @ + 1]

\* osf_storage_download_file for one request: get_version, then the
\* counters, then the redirect to the download url.
DownloadRequest(p, path, query) ==
    LET got == get_version(path, query)
    IN  IF got.err # NoResponse
        THEN /\ Respond(p, got.err)
             /\ UNCHANGED <<store, counters>>
        ELSE /\ counters' = update_analytics(counters, path, got.idx)
             /\ Respond(p, Served)
             /\ UNCHANGED store

\* The version parameters download requests carry: absent, the numbers up
\* to one past the longest version list, and a string that is no number.
DownloadQueries ==
    {NoVersionQuery}
    \cup {VersionQuery(str(k)) : k \in 0..(MaxVersions + 1)}
    \cup {VersionQuery(<<"x">>)}

\* A worker serves a download request.
DownloadFile(p) ==
    /\ pc[p] = "idle"
    /\ \E path \in Paths, query \in DownloadQueries :
          /\ counters.file[path] < MaxDownloads
          /\ DownloadRequest(p, path, query)

----------------------------------------------------------------------------
(* Sessions (framework/sessions/__init__.py) *)

\* The Flask secret the cookies are signed with, and a key that is not it.
SECRET_KEY == "secret"
ForeignKey == "foreign"
\* http.FORBIDDEN and the status of the retry redirect.
FORBIDDEN == 403
TemporaryRedirect == 307
\* The status of a handler's own response.
OK == 200

\* A Python dict is a function from the keys it holds.
EmptyDict == [key \in {} |-> None]
\* dict.get(key).
get(dict, key) == IF key \in DOMAIN dict THEN dict[key] ELSE None
\* dict.update(other): the keys of other win.
update(dict, other) == other @@ dict
\* dict[key] = value.
setitem(dict, key, value) == (key :> value) @@ dict

\* Session ids; 0 is the _id of a Session() built without one.
SessionIds == 1..MaxSessions
NoId == 0

\* Session(_id=..., data=...), and the absence of a session.
Session(id, data) == [_id |-> id, data |-> data]
NoSession == [none |-> TRUE]

\* bson.objectid.ObjectId(): an id no session has, 0 once the ids
\* explored are used up.
ObjectId(db, registry) ==
    LET taken == DOMAIN db \cup {registry[p]._id :
                                   p \in {q \in Procs :
                                            registry[q] # NoSession}}
        free == SessionIds \ taken
    IN  IF free = {} THEN NoId
        ELSE CHOOSE id \in free : \A other \in free : id <= other

\* Session.save(): the session is stored under its _id, one generated for
\* it when it has none.  Gives the store and the session as saved.
save(db, registry, session) ==
    LET id == IF session._id = NoId THEN ObjectId(db, registry)
              ELSE session._id
    IN  [db |-> setitem(db, id, session.data),
         session |-> Session(id, session.data)]

\* Session.load(_id): the persisted session, None without one.
load(db, id) ==
    IF id \in DOMAIN db THEN Session(id, db[id]) ELSE NoSession

\* itsdangerous.Signer(key): the signature binds the key and the value.
hmac(key, value) == [key |-> key, value |-> value]
sign(key, value) == [value |-> value, sig |-> hmac(key, value)]
BadSignature == -1
unsign(key, cookie) ==
    IF cookie.sig = hmac(key, cookie.value) THEN cookie.value
    ELSE BadSignature

\* No cookie of the session's name in the request.
NoCookie == [value |-> NoId, sig |-> hmac(None, NoId)]

\* The cookies requests carry: none, one signed with the secret for any
\* id, one signed with another key, and one whose id was altered after
\* signing.
Cookies ==
    {NoCookie}
    \cup {sign(SECRET_KEY, id) : id \in SessionIds}
    \cup {sign(ForeignKey, 1)}
    \cup {[value |-> 1, sig |-> hmac(SECRET_KEY, 2)]}

\* The ApiKey collection: a key attached to a user, one attached to a
\* node, one attached to neither; ApiKey.load finds no other id.
NoUser == [_primary_key |-> None, username |-> None, fullname |-> None]
NoNode == [_primary_key |-> None]
ApiKeys ==
    {[_primary_key |-> "key_user",
      user |-> [_primary_key |-> "u1", username |-> "u1@osf",
                fullname |-> "User One"],
      node |-> NoNode],
     [_primary_key |-> "key_node", user |-> NoUser,
      node |-> [_primary_key |-> "n1"]],
     [_primary_key |-> "key_bare", user |-> NoUser, node |-> NoNode]}
NoApiKey == [_primary_key |-> None, user |-> NoUser, node |-> NoNode]
ApiKey_load(api_key_id) ==
    IF \E k \in ApiKeys : k._primary_key = api_key_id
    THEN CHOOSE k \in ApiKeys : k._primary_key = api_key_id
    ELSE NoApiKey

\* request.authorization: absent, or the label and key id of HTTP Basic.
NoAuthorization == [username |-> None, password |-> None]
Authorizations ==
    {[username |-> "label", password |-> id] :
        id \in {"key_user", "key_node", "key_bare", "key_unknown"}}

\* Referrers, and settings.URL_HISTORY_IGNORE.
Referrers == {"/prev"}
URL_HISTORY_IGNORE == {"/login"}

\* The one path requested.
RequestPaths == {"/p"}

\* A worker without a request, and the request it carries otherwise:
\* stage is "before", "handler" or "after"; retry tells a request that
\* follows a redirect.
NoRequest == [stage |-> "none"]
Request(path, authorization, cookie, referrer, retry) ==
    [stage |-> "before", path |-> path, authorization |-> authorization,
     cookie |-> cookie, referrer |-> referrer, retry |-> retry]

\* Responses: a status, the Location of a redirect, the cookie it sets.
NoReply == [code |-> 0, location |-> None, set_cookie |-> NoCookie]
redirect(location, code) ==
    [code |-> code, location |-> location, set_cookie |-> NoCookie]
HandlerResponse == [code |-> OK, location |-> None, set_cookie |-> NoCookie]

\* set_previous_url() as after_request calls it, on the session's data.
set_previous_url(session, referrer) ==
    IF referrer \notin URL_HISTORY_IGNORE
    THEN [session EXCEPT !.data = setitem(@, "url_previous", referrer)]
    ELSE session

\* create_session that always starts a new session, whatever the request
\* has.
create_session_replace(db, registry, current_session, response, data) ==
    LET session_id == ObjectId(db, registry)
        session == Session(session_id, data)
        saved == save(db, registry, session)
    IN  [db |-> saved.db, session |-> saved.session,
         response |-> [response EXCEPT !.set_cookie =
                         sign(SECRET_KEY, session_id)]]

\* create_session that sets the cookie of a new session it never saved.
create_session_unsaved(db, registry, current_session, response, data) ==
    IF current_session # NoSession
    THEN LET merged == [current_session EXCEPT !.data = update(@, data)]
             saved == save(db, registry, merged)
         IN  [db |-> saved.db, session |-> saved.session,
              response |-> [response EXCEPT !.set_cookie =
                              sign(SECRET_KEY, saved.session._id)]]
    ELSE LET session_id == ObjectId(db, registry)
             session == Session(session_id, data)
         IN  [db |-> db, session |-> session,
              response |-> [response EXCEPT !.set_cookie =
                              sign(SECRET_KEY, session_id)]]

\* create_session(response, data): what it leaves in the store, the session
\* registered for the request, and the response with its cookie.
create_session(db, registry, current_session, response, data) ==
    IF current_session # NoSession
    THEN LET merged == [current_session EXCEPT !.data = update(@, data)]
             saved == save(db, registry, merged)
         IN  [db |-> saved.db, session |-> saved.session,
              response |-> [response EXCEPT !.set_cookie =
                              sign(SECRET_KEY, saved.session._id)]]
    ELSE LET session_id == ObjectId(db, registry)
             session == Session(session_id, data)
             saved == save(db, registry, session)
         IN  [db |-> saved.db, session |-> saved.session,
              response |-> [response EXCEPT !.set_cookie =
                              sign(SECRET_KEY, session_id)]]

\* The session before_request builds from the Authorization header.
api_session(authorization) ==
    LET api_label == authorization.username
        api_key_id == authorization.password
        api_key == ApiKey_load(api_key_id)
    IN  IF api_key # NoApiKey
        THEN LET keyed ==
                    setitem(setitem(EmptyDict, "auth_api_label", api_label),
                            "auth_api_key", api_key._primary_key)
             IN  IF api_key.user # NoUser
                 THEN Session(NoId,
                         setitem(setitem(setitem(keyed,
                            "auth_user_username", api_key.user.username),
                            "auth_user_id", api_key.user._primary_key),
                            "auth_user_fullname", api_key.user.fullname))
                 ELSE IF api_key.node # NoNode
                 THEN Session(NoId,
                         setitem(keyed, "auth_node_id",
                                 api_key.node._primary_key))
                 ELSE Session(NoId,
                         setitem(keyed, "auth_error_code", FORBIDDEN))
        ELSE Session(NoId,
                setitem(EmptyDict, "auth_error_code", FORBIDDEN))

\* before_request for request r: the store, the session registered, and
\* the response returned (NoReply when the request goes on to its handler).
before_request(db, registry, r) ==
    IF r.authorization # NoAuthorization
    THEN [db |-> db, session |-> api_session(r.authorization),
          response |-> NoReply]
    ELSE IF r.cookie # NoCookie /\ unsign(SECRET_KEY, r.cookie) # BadSignature
    THEN LET session_id == unsign(SECRET_KEY, r.cookie)
             loaded == load(db, session_id)
         IN  [db |-> db,
              session |-> IF loaded # NoSession THEN loaded
                          ELSE Session(session_id, EmptyDict),
              response |-> NoReply]
    ELSE create_session(db, registry, NoSession,
                        redirect(r.path, TemporaryRedirect), EmptyDict)

\* after_request: the store and the session after it.
after_request(db, registry, session, referrer) ==
    LET current == set_previous_url(session, referrer)
    IN  IF get(current.data, "auth_api_key") = None
        THEN save(db, registry, current)
        ELSE [db |-> db, session |-> current]

\* The ids explored sufficed for what a step stored.
WithinIds(db) == NoId \notin DOMAIN db

\* A client sends a request: with an Authorization header, or without one
\* and with any cookie.
NewRequest(p) ==
    /\ request[p] = NoRequest
    /\ \E path \in RequestPaths, referrer \in Referrers :
          \E draw \in (Authorizations \X {NoCookie})
                        \cup ({NoAuthorization} \X Cookies) :
             request' = [request EXCEPT ![p] =
                           Request(path, draw[1], draw[2], referrer, FALSE)]
    /\ reply' = [reply EXCEPT ![p] = NoReply]
    /\ UNCHANGED <<sessions, session_db>>

\* The client follows the redirect it received, presenting the cookie the
\* redirect set.
Retry(p) ==
    /\ request[p] = NoRequest
    /\ reply[p].code = TemporaryRedirect
    /\ \E referrer \in Referrers :
          request' = [request EXCEPT ![p] =
                        Request(reply[p].location, NoAuthorization,
                                reply[p].set_cookie, referrer, TRUE)]
    /\ reply' = [reply EXCEPT ![p] = NoReply]
    /\ UNCHANGED <<sessions, session_db>>

\* before_request runs; a response it returns replaces the handler.
BeforeRequest(p) ==
    /\ request[p].stage = "before"
    /\ LET out == before_request(session_db, sessions, request[p])
       IN  /\ WithinIds(out.db)
           /\ session_db' = out.db
           /\ sessions' = [sessions EXCEPT ![p] = out.session]
           /\ reply' = [reply EXCEPT ![p] = out.response]
           /\ request' = [request EXCEPT ![p].stage =
                            IF out.response = NoReply THEN "handler"
                            ELSE "after"]

\* What a login handler passes to create_session.
LoginData == setitem(EmptyDict, "auth_user_id", "u1")

\* A handler that does not touch the session answers.
Handler(p) ==
    /\ request[p].stage = "handler"
    /\ reply' = [reply EXCEPT ![p] = HandlerResponse]
    /\ request' = [request EXCEPT ![p].stage = "after"]
    /\ UNCHANGED <<sessions, session_db>>

\* A login handler answers, calling create_session with the user's data.
LoginHandler(p) ==
    /\ request[p].stage = "handler"
    /\ LET out == create_session(session_db, sessions, sessions[p],
                                 HandlerResponse, LoginData)
       IN  /\ WithinIds(out.db)
           /\ session_db' = out.db
           /\ sessions' = [sessions EXCEPT ![p] = out.session]
           /\ reply' = [reply EXCEPT ![p] = out.response]
    /\ request' = [request EXCEPT ![p].stage = "after"]

\* after_request runs and the response leaves: the registry drops the
\* entry of the finished request, and a redirect stays for the client to
\* follow.
AfterRequest(p) ==
    /\ request[p].stage = "after"
    /\ LET out == after_request(session_db, sessions, sessions[p],
                                request[p].referrer)
       IN  /\ WithinIds(out.db)
           /\ session_db' = out.db
    /\ sessions' = [sessions EXCEPT ![p] = NoSession]
    /\ reply' = [reply EXCEPT ![p] = IF @.code = TemporaryRedirect
                                     THEN @ ELSE NoReply]
    /\ request' = [request EXCEPT ![p] = NoRequest]

----------------------------------------------------------------------------
(* Wiki pages (website/addons/wiki/views.py) *)

\* The page names requests put in the URL, and the contents they post.
WikiNames == {"home", "Home", " page "}
Contents == {"", "c1", "c2"}

\* str.strip() and str.lower() on those names.
strip(name) == IF name = " page " THEN "page" ELSE name
lower(name) == IF name = "Home" THEN "home" ELSE name

\* to_mongo_key: the key a page name is kept under.
to_mongo_key(name) == lower(strip(name))

\* No page under the key.
NoWikiPage == [page_name |-> None, versions |-> <<>>]

\* node.get_wiki_page(name): the page kept under the name's key, None
\* without one.
get_wiki_page(pages, name) ==
    IF to_mongo_key(name) \in DOMAIN pages THEN pages[to_mongo_key(name)]
    ELSE NoWikiPage

\* The content of a page: that of its newest version.
content(page) == page.versions[Len(page.versions)]

\* node.update_node_wiki(name, content, auth): a new version of the page
\* under the name's key, the page being created when there is none.
update_node_wiki(pages, name, new_content) ==
    LET key == to_mongo_key(name)
    IN  IF key \in DOMAIN pages
        THEN [pages EXCEPT ![key].versions = Append(@, new_content)]
        ELSE (key :> [page_name |-> name, versions |-> <<new_content>>])
                @@ pages

\* web_url_for('project_wiki_view', wname=...).
web_url_for(view, wname) == <<view, wname>>

\* What the handler returns: ret, http.FOUND and the redirect url.
WikiResponse(status, redirect_url) ==
    [code |-> "FOUND", status |-> status, reason |-> "",
     location |-> redirect_url]

\* project_wiki_edit_post that updates whatever was posted.
project_wiki_edit_post_always(pages, wname, form_wiki_content) ==
    LET stripped == strip(wname)
        wiki_page == get_wiki_page(pages, stripped)
        redirect_url == web_url_for("project_wiki_view", stripped)
        wiki_name == IF lower(stripped) = "home" THEN "home" ELSE stripped
    IN  IF wiki_page # NoWikiPage
        THEN [update |-> TRUE, name |-> wiki_page.page_name,
              ret |-> "success", redirect_url |-> redirect_url]
        ELSE [update |-> TRUE, name |-> wiki_name,
              ret |-> "success", redirect_url |-> redirect_url]

\* project_wiki_edit_post up to its call of update_node_wiki: whether it
\* calls it and with which name, the status it returns and the redirect.
project_wiki_edit_post(pages, wname, form_wiki_content) ==
    LET stripped == strip(wname)
        wiki_page == get_wiki_page(pages, stripped)
        redirect_url == web_url_for("project_wiki_view", stripped)
        wiki_name == IF lower(stripped) = "home" THEN "home" ELSE stripped
    IN  IF wiki_page # NoWikiPage
        THEN IF form_wiki_content # content(wiki_page)
             THEN [update |-> TRUE, name |-> wiki_page.page_name,
                   ret |-> "success", redirect_url |-> redirect_url]
             ELSE [update |-> FALSE, name |-> wiki_page.page_name,
                   ret |-> "unmodified", redirect_url |-> redirect_url]
        ELSE [update |-> TRUE, name |-> wiki_name,
              ret |-> "success", redirect_url |-> redirect_url]

\* Workers between their read of the page and their update_node_wiki.
WikiUpdating == {p \in Procs : pc[p] = "wiki_update"}

\* The handler for one edit post, up to its call of update_node_wiki: it
\* reads the page and compares the posted content; unmodified content is
\* answered at once.
WikiEditRequest(p, wname, form_wiki_content) ==
    LET post == project_wiki_edit_post(wiki_pages, wname, form_wiki_content)
    IN  /\ IF post.update
           THEN /\ wiki_calls + Cardinality(WikiUpdating) < MaxWikiCalls
                /\ pc' = [pc EXCEPT ![p] = "wiki_update"]
                /\ local' = [local EXCEPT ![p] =
                               [hook |-> "wiki_edit", wname |-> wname,
                                name |-> post.name,
                                content |-> form_wiki_content,
                                ret |-> post.ret,
                                redirect_url |-> post.redirect_url]]
                /\ resp' = [resp EXCEPT ![p] = NoResponse]
           ELSE Respond(p, WikiResponse(post.ret, post.redirect_url))
        /\ UNCHANGED <<wiki_pages, wiki_calls>>

\* A worker takes an edit post.
WikiEditBegin(p) ==
    /\ pc[p] = "idle"
    /\ \E wname \in WikiNames, form_wiki_content \in Contents :
          WikiEditRequest(p, wname, form_wiki_content)

\* The worker calls update_node_wiki and answers.
WikiEditApply(p) ==
    /\ pc[p] = "wiki_update"
    /\ wiki_pages' = update_node_wiki(wiki_pages, local[p].name,
                                      local[p].content)
    /\ wiki_calls' = wiki_calls + 1
    /\ Respond(p, WikiResponse(local[p].ret, local[p].redirect_url))

----------------------------------------------------------------------------

Init ==
    /\ store = <<>>
    /\ pc = [p \in Procs |-> "idle"]
    /\ local = [p \in Procs |-> NoLocal]
    /\ resp = [p \in Procs |-> NoResponse]
    /\ counters = NoDownloads
    /\ request = [p \in Procs |-> NoRequest]
    /\ sessions = [p \in Procs |-> NoSession]
    /\ session_db = EmptyDict
    /\ reply = [p \in Procs |-> NoReply]
    /\ wiki_pages = EmptyDict
    /\ wiki_calls = 0

Next ==
    /\ \E p \in Procs :
          \/ StartHookBegin(p)
          \/ StartHookCreate(p)
          \/ FinishHookBegin(p)
          \/ FinishHookApply(p)
          \/ DeleteBegin(p)
          \/ DeleteApply(p)
    /\ UNCHANGED <<counters, sessionvars, wikivars>>

Spec == Init /\ [][Next]_vars

\* The webhooks the upload service sends: verified and well-formed, with
\* every token.
StartHookBeginValid(p) ==
    /\ pc[p] = "idle"
    /\ \E path \in Paths, user_id \in Users, upload_signature \in Tokens :
          StartHookRequest(p, path, TRUE, user_id, upload_signature)

FinishHookBeginValid(p) ==
    /\ pc[p] = "idle"
    /\ \E path \in Paths, status \in {"success", "error"} :
          \E payload \in {f \in FinishPayloads(status) : Carries(f)} :
             FinishHookRequest(p, path, TRUE, payload)

\* Reads served beside the uploads and deletes they can meet: the workers
\* take read requests with every version parameter, delete requests and
\* the upload service's webhooks.
NextRead ==
    /\ \E p \in Procs :
          \/ StartHookBeginValid(p)
          \/ StartHookCreate(p)
          \/ FinishHookBeginValid(p)
          \/ FinishHookApply(p)
          \/ DeleteBegin(p)
          \/ DeleteApply(p)
          \/ ReadFile(p)
    /\ UNCHANGED <<counters, sessionvars, wikivars>>

SpecRead == Init /\ [][NextRead]_vars

\* Webhooks a worker must refuse, taken beside the upload service's own:
\* webhooks whose signature does not verify, with an empty or a well-formed
\* payload, verified finish webhooks of an unknown status, and verified
\* start webhooks whose payload does not validate.
StartHookBeginUnverified(p) ==
    /\ pc[p] = "idle"
    /\ \E path \in Paths :
          \/ StartHookRequest(p, path, FALSE, Missing, Missing)
          \/ \E user_id \in Users, upload_signature \in Tokens :
                StartHookRequest(p, path, FALSE, user_id, upload_signature)

FinishHookBeginUnverified(p) ==
    /\ pc[p] = "idle"
    /\ \E path \in Paths, payload \in UnverifiedPayloads :
          FinishHookRequest(p, path, FALSE, payload)

FinishHookBeginInvalidStatus(p) ==
    /\ pc[p] = "idle"
    /\ \E path \in Paths, status \in Statuses \ {"success", "error"} :
          \E payload \in FinishPayloads(status) :
             FinishHookRequest(p, path, TRUE, payload)

\* The payloads of a verified start webhook that validation refuses: the
\* user or the upload signature absent, or a user id no user has.
InvalidStartPayloads ==
    {f \in [user : StartUsers, upload_signature : StartSignatures] :
        f.user \notin Users \/ f.upload_signature = Missing}

StartHookBeginInvalidPayload(p) ==
    /\ pc[p] = "idle"
    /\ \E path \in Paths, f \in InvalidStartPayloads :
          StartHookRequest(p, path, TRUE, f.user, f.upload_signature)

NextWebhooks ==
    /\ \E p \in Procs :
          \/ StartHookBeginValid(p)
          \/ StartHookBeginUnverified(p)
          \/ StartHookBeginInvalidPayload(p)
          \/ StartHookCreate(p)
          \/ FinishHookBeginValid(p)
          \/ FinishHookBeginUnverified(p)
          \/ FinishHookBeginInvalidStatus(p)
          \/ FinishHookApply(p)
    /\ UNCHANGED <<counters, sessionvars, wikivars>>

SpecWebhooks == Init /\ [][NextWebhooks]_vars

\* The workers the upload service's webhooks reach while downloads are
\* served.  Every write to the store is one step of one worker, so one
\* uploading worker brings the store to all the states several would.
Uploaders == {1}

\* Downloads served by every worker beside the upload service's webhooks.
NextDownload ==
    \/ \E p \in Uploaders :
          /\ \/ StartHookBeginValid(p)
             \/ StartHookCreate(p)
             \/ FinishHookBeginValid(p)
             \/ FinishHookApply(p)
          /\ UNCHANGED <<counters, sessionvars, wikivars>>
    \/ /\ \E p \in Procs : DownloadFile(p)
       /\ UNCHANGED <<sessionvars, wikivars>>

SpecDownload == Init /\ [][NextDownload]_vars

\* The requests the session callbacks serve.
NextSessions ==
    /\ \E p \in Procs :
          \/ NewRequest(p)
          \/ Retry(p)
          \/ BeforeRequest(p)
          \/ Handler(p)
          \/ AfterRequest(p)
    /\ UNCHANGED <<store, pc, local, resp, counters, wikivars>>

SpecSessions == Init /\ [][NextSessions]_vars

\* A worker that took a request runs before_request on it.
SpecSessionsLive ==
    SpecSessions /\ \A p \in Procs : WF_sessionvars(BeforeRequest(p))

\* The same requests, some of them served by a login handler.
NextLogin ==
    /\ \E p \in Procs :
          \/ NewRequest(p)
          \/ Retry(p)
          \/ BeforeRequest(p)
          \/ Handler(p)
          \/ LoginHandler(p)
          \/ AfterRequest(p)
    /\ UNCHANGED <<store, pc, local, resp, counters, wikivars>>

SpecLogin == Init /\ [][NextLogin]_vars

\* Edit posts to the wiki.
NextWiki ==
    /\ \E p \in Procs :
          \/ WikiEditBegin(p)
          \/ WikiEditApply(p)
    /\ UNCHANGED <<store, counters, sessionvars>>

SpecWiki == Init /\ [][NextWiki]_vars

----------------------------------------------------------------------------
(* Properties *)

\* The record of a path that has one.
RecordOf(path) == store[find_by_path(path)]

\* The record's current version, versions[-1].
Current(record) == record.versions[Len(record.versions)]

HasPending(record) == PendingIndices(record) # {}

\* Worker p takes the second step of the start hook, of the finish hook.
StartCreateStep(p) == pc[p] = "start_create" /\ pc'[p] = "idle"
FinishApplyStep(p) == pc[p] = "finish_apply" /\ pc'[p] = "idle"

PathLocked == make_error("CONFLICT", "File path is locked")
SignatureConsumed == make_error("BAD_REQUEST", "Signature consumed")
NoPendingUpload == make_error("BAD_REQUEST", "No pending upload")
InvalidUploadSignature == make_error("BAD_REQUEST", "Invalid upload signature")

\* C1: in every reachable state every FileRecord holds at most one version
\* in state PENDING.
C1_AtMostOnePending ==
    \A i \in 1..Len(store) : Cardinality(PendingIndices(store[i])) <= 1

\* A record with a resolved version and a pending one after it, deleted
\* in between or afterwards.
C1_Witness ==
    \E i \in 1..Len(store) :
        /\ Len(store[i].versions) = 2
        /\ store[i].versions[1].status = "COMPLETE"
        /\ store[i].versions[2].status = "PENDING"
        /\ store[i].is_deleted

\* C2: when two start hooks for the same path are both between
\* get_or_create and create_pending_version and one of them creates the
\* pending version, the other one's create_pending_version on the record
\* as it then stands raises PathLockedError, is answered with the conflict
\* and appends nothing; the record holds exactly one PENDING version.
C2_StartRace ==
    [][\A p, q \in Procs :
         ( /\ p # q
           /\ pc[q] = "start_create"
           /\ StartCreateStep(p)
           /\ local[p].path = local[q].path
           /\ resp'[p] = Success )
         => LET rec == store'[find_by_path(local[q].path)]
                out == create_pending_version(rec, local[q].user,
                                              local[q].upload_signature)
            IN  /\ out.err = "PathLockedError"
                /\ start_hook_response(out.err) = PathLocked
                /\ out.record = rec
                /\ Cardinality(PendingIndices(rec)) = 1
                /\ Len(rec.versions) = Len(RecordOf(local[p].path).versions) + 1
      ]_vars

\* Both workers stand between the two steps of a start hook for the same
\* path, each with a token the record has not consumed, and the path is
\* not locked: either could create the pending version.
C2_Witness ==
    /\ \A p \in Procs : pc[p] = "start_create"
    /\ local[1].path = local[2].path
    /\ ~HasPending(RecordOf(local[1].path))
    /\ \A p \in Procs :
          local[p].upload_signature
              \notin ConsumedSignatures(RecordOf(local[1].path))

\* The payload's token is the one stored on the record's current version,
\* which is PENDING.
MatchesPending(record, payload) ==
    /\ Len(record.versions) > 0
    /\ Current(record).status = "PENDING"
    /\ Current(record).signature = payload.uploadSignature

\* C3: when two finish hooks for the same path both hold the token of the
\* pending version and one of them is applied, that one succeeds and moves
\* the version to COMPLETE (status success) or FAILED (status error); the
\* other one's call on the record as it then stands raises
\* VersionNotPendingError, answered 'No pending upload', and changes
\* nothing.  No step writes a version that is not PENDING: a version's
\* state, location and metadata are written at most once.
C3_FinishRace ==
    [][/\ \A p, q \in Procs :
            ( /\ p # q
              /\ pc[q] = "finish_apply"
              /\ FinishApplyStep(p)
              /\ local[p].path = local[q].path
              /\ Carries(local[p].payload) /\ Carries(local[q].payload)
              /\ MatchesPending(RecordOf(local[p].path), local[p].payload)
              /\ MatchesPending(RecordOf(local[q].path), local[q].payload) )
            => LET rec == store'[find_by_path(local[q].path)]
                   out == finish_dispatch(rec, local[q].payload)
               IN  /\ resp'[p] = Success
                   /\ Current(rec).status =
                         (IF local[p].payload.status = "success"
                          THEN "COMPLETE" ELSE "FAILED")
                   /\ out.err = "VersionNotPendingError"
                   /\ handle_finish_errors(out.err) = NoPendingUpload
                   /\ out.record = rec
       /\ \A i \in 1..Len(store) : \A k \in 1..Len(store[i].versions) :
            store'[i].versions[k] # store[i].versions[k]
            => /\ store[i].versions[k].status = "PENDING"
               /\ store'[i].versions[k].status # "PENDING"
      ]_vars

\* Two finish deliveries, one reporting success and one reporting error,
\* both with the token of the same pending version, are about to be
\* applied.
C3_Witness ==
    /\ \A p \in Procs : pc[p] = "finish_apply"
    /\ local[1].path = local[2].path
    /\ \A p \in Procs :
          /\ Carries(local[p].payload)
          /\ MatchesPending(RecordOf(local[p].path), local[p].payload)
    /\ local[1].payload.status = "success"
    /\ local[2].payload.status = "error"

\* C4: create_pending_version on a record that holds a PENDING version
\* raises PathLockedError and leaves the store as it was; the start hook
\* answers conflict, 'File path is locked'.
C4_PathLocked ==
    [][\A p \in Procs :
         (StartCreateStep(p) /\ HasPending(RecordOf(local[p].path)))
         => /\ create_pending_version(RecordOf(local[p].path), local[p].user,
                   local[p].upload_signature).err = "PathLockedError"
            /\ resp'[p] = PathLocked
            /\ store' = store
      ]_vars

\* A worker was answered 'File path is locked' and the version that locks
\* the path is still the only pending one.
C4_Witness ==
    \E p \in Procs, i \in 1..Len(store) :
        /\ resp[p] = PathLocked
        /\ Cardinality(PendingIndices(store[i])) = 1

\* C5: resolve_pending_version or cancel_pending_version called on a record
\* whose current version is PENDING, with a token other than the one stored
\* on it, raises PendingSignatureMismatchError and leaves the store as it
\* was (the version stays PENDING with its token, no location and no
\* metadata); the finish hook answers bad request, 'Invalid upload
\* signature'.
C5_SignatureMismatch ==
    [][\A p \in Procs :
         ( /\ FinishApplyStep(p)
           /\ Carries(local[p].payload)
           /\ Len(RecordOf(local[p].path).versions) > 0
           /\ Current(RecordOf(local[p].path)).status = "PENDING"
           /\ Current(RecordOf(local[p].path)).signature
                 # local[p].payload.uploadSignature )
         => /\ finish_dispatch(RecordOf(local[p].path), local[p].payload).err
                 = "PendingSignatureMismatchError"
            /\ resp'[p] = InvalidUploadSignature
            /\ store' = store
            /\ Current(store'[find_by_path(local[p].path)]).status = "PENDING"
      ]_vars

\* A worker was answered 'Invalid upload signature' and the version it
\* aimed at is still pending, without location or metadata.
C5_Witness ==
    \E p \in Procs, i \in 1..Len(store) :
        /\ resp[p] = InvalidUploadSignature
        /\ Len(store[i].versions) > 0
        /\ Current(store[i]).status = "PENDING"
        /\ Current(store[i]).location = None
        /\ Current(store[i]).metadata = None

\* C6: resolve_pending_version or cancel_pending_version called on a record
\* whose current version is COMPLETE or FAILED raises
\* VersionNotPendingError whatever the token, and leaves the store as it
\* was; the finish hook answers bad request, 'No pending upload'.
C6_NotPending ==
    [][\A p \in Procs :
         ( /\ FinishApplyStep(p)
           /\ Carries(local[p].payload)
           /\ Len(RecordOf(local[p].path).versions) > 0
           /\ Current(RecordOf(local[p].path)).status
                 \in {"COMPLETE", "FAILED"} )
         => /\ finish_dispatch(RecordOf(local[p].path), local[p].payload).err
                 = "VersionNotPendingError"
            /\ resp'[p] = NoPendingUpload
            /\ store' = store
      ]_vars

\* A worker was answered 'No pending upload' on a record whose current
\* version is resolved.
C6_Witness ==
    \E p \in Procs, i \in 1..Len(store) :
        /\ resp[p] = NoPendingUpload
        /\ Len(store[i].versions) > 0
        /\ Current(store[i]).status \in {"COMPLETE", "FAILED"}

\* C7: a successful create_pending_version stores the payload's
\* uploadSignature on the new PENDING version, and a finish hook with
\* status success and that token leaves the version COMPLETE with exactly
\* the payload's location and metadata, its token and creator kept.
C7_RoundTrip ==
    [][\A p \in Procs :
         /\ (StartCreateStep(p) /\ resp'[p] = Success)
            => LET rec == store'[find_by_path(local[p].path)]
               IN  /\ Len(rec.versions) > 0
                   /\ Current(rec) = PendingVersion(local[p].user,
                                          local[p].upload_signature)
         /\ ( /\ FinishApplyStep(p)
              /\ local[p].payload.status = "success"
              /\ Carries(local[p].payload)
              /\ MatchesPending(RecordOf(local[p].path), local[p].payload) )
            => LET old == Current(RecordOf(local[p].path))
                   new == Current(store'[find_by_path(local[p].path)])
               IN  /\ resp'[p] = Success
                   /\ new = [status |-> "COMPLETE",
                             creator |-> old.creator,
                             signature |-> local[p].payload.uploadSignature,
                             location |-> local[p].payload.location,
                             metadata |-> local[p].payload.metadata]
      ]_vars

\* Version 1 of a record is COMPLETE with a location and metadata of the
\* upload service, and the worker that resolved it was answered success.
C7_Witness ==
    \E p \in Procs, i \in 1..Len(store) :
        /\ resp[p] = Success
        /\ Len(store[i].versions) = 1
        /\ ~store[i].is_deleted
        /\ store[i].versions[1].status = "COMPLETE"
        /\ store[i].versions[1].location \in Locations
        /\ store[i].versions[1].metadata \in Metadatas

\* C8: a finish hook with status error and the token stored on the
\* pending version is answered success and moves that version to FAILED,
\* with no location and no metadata, and changes nothing else in the
\* store.
C8_Cancel ==
    [][\A p \in Procs :
         ( /\ FinishApplyStep(p)
           /\ local[p].payload.status = "error"
           /\ MatchesPending(RecordOf(local[p].path), local[p].payload) )
         => LET i == find_by_path(local[p].path)
                n == Len(store[i].versions)
            IN  /\ resp'[p] = Success
                /\ store' = [store EXCEPT ![i].versions[n].status = "FAILED"]
                /\ store'[i].versions[n].status # "COMPLETE"
                /\ store'[i].versions[n].location = None
                /\ store'[i].versions[n].metadata = None
      ]_vars

\* A record whose second version was cancelled while its first one stays
\* COMPLETE.
C8_Witness ==
    \E p \in Procs, i \in 1..Len(store) :
        /\ resp[p] = Success
        /\ Len(store[i].versions) = 2
        /\ store[i].versions[1].status = "COMPLETE"
        /\ store[i].versions[2].status = "FAILED"

\* C9 as stated: create_pending_version with a token that a resolved
\* version of the record carries raises SignatureConsumedError, answered
\* bad request 'Signature consumed', and appends nothing.
C9_Original ==
    [][\A p \in Procs :
         ( /\ StartCreateStep(p)
           /\ local[p].upload_signature
                 \in ConsumedSignatures(RecordOf(local[p].path)) )
         => /\ resp'[p] = SignatureConsumed
            /\ store' = store
      ]_vars

\* C9, amended: create_pending_version with a token that a resolved
\* version of the record carries, on a record that holds no PENDING
\* version, raises SignatureConsumedError, answered bad request
\* 'Signature consumed', and appends nothing; on a record that holds a
\* PENDING version the call appends nothing either, and is answered
\* 'File path is locked'.
C9_SignatureConsumed ==
    [][\A p \in Procs :
         ( /\ StartCreateStep(p)
           /\ local[p].upload_signature
                 \in ConsumedSignatures(RecordOf(local[p].path)) )
         => /\ store' = store
            /\ resp'[p] = (IF HasPending(RecordOf(local[p].path))
                           THEN PathLocked ELSE SignatureConsumed)
      ]_vars

\* A worker was answered 'Signature consumed' and the path is not locked.
C9_Witness ==
    \E p \in Procs, i \in 1..Len(store) :
        /\ resp[p] = SignatureConsumed
        /\ Len(store[i].versions) > 0
        /\ ~HasPending(store[i])

\* C10: a finish hook that presents the token of a version that has left
\* PENDING is never answered success and leaves the store as it was,
\* whatever was appended to the record since.
C10_TokenConsumed ==
    [][\A p \in Procs :
         ( /\ FinishApplyStep(p)
           /\ local[p].payload.uploadSignature
                 \in ConsumedSignatures(RecordOf(local[p].path)) )
         => /\ store' = store
            /\ resp'[p] \in {NoPendingUpload, InvalidUploadSignature,
                             Unhandled("KeyError")}
            /\ Carries(local[p].payload)
                 => resp'[p] \in {NoPendingUpload, InvalidUploadSignature}
      ]_vars

\* A finish hook presents the token of version 1, which was cancelled,
\* after version 2 was appended and while it is pending.
C10_Witness ==
    \E p \in Procs :
        /\ pc[p] = "finish_apply"
        /\ Carries(local[p].payload)
        /\ LET rec == RecordOf(local[p].path)
           IN  /\ Len(rec.versions) = 2
               /\ rec.versions[1].status = "FAILED"
               /\ rec.versions[2].status = "PENDING"
               /\ rec.versions[1].signature = local[p].payload.uploadSignature

----------------------------------------------------------------------------
(* Webhook authentication and payload checks *)

InvalidSignature == make_error("BAD_REQUEST", "Invalid signature")

\* The step is one in which idle worker p takes a request: the other
\* workers stay as they are.
TakesRequest(p) ==
    /\ pc[p] = "idle"
    /\ \A q \in Procs \ {p} :
          pc'[q] = pc[q] /\ local'[q] = local[q] /\ resp'[q] = resp[q]

\* C11: a start or finish webhook whose signature does not verify, whatever
\* its payload, is answered bad request 'Invalid signature' in the step that
\* takes it, and that step leaves the store as it was: no record is
\* created, no version appended or transitioned.
C11_InvalidSignature ==
    [][\A p \in Procs :
          TakesRequest(p) =>
             \A path \in Paths :
                /\ \A user_id \in Users \cup {Missing},
                      upload_signature \in Tokens \cup {Missing} :
                      StartHookRequest(p, path, FALSE, user_id,
                                       upload_signature)
                      => (resp'[p] = InvalidSignature /\ pc'[p] = "idle"
                             /\ store' = store)
                /\ \A payload \in UnverifiedPayloads :
                      FinishHookRequest(p, path, FALSE, payload)
                      => (resp'[p] = InvalidSignature /\ pc'[p] = "idle"
                             /\ store' = store)]_vars

\* A request was answered 'Invalid signature' while the path's record holds
\* a pending upload, which a finish hook could have resolved.
C11_Witness ==
    \E p \in Procs, path \in Paths :
       /\ resp[p] = InvalidSignature
       /\ find_by_path(path) # 0
       /\ HasPending(RecordOf(path))

InvalidStatus == make_error("BAD_REQUEST", "Invalid status")

\* C12: a verified finish webhook whose status is neither 'success' nor
\* 'error', an absent status included, is answered bad request 'Invalid
\* status' in the step that takes it, whether or not the path has a record,
\* and that step changes no record.
C12_InvalidStatus ==
    [][\A p \in Procs :
          TakesRequest(p) =>
             \A path \in Paths, status \in Statuses \ {"success", "error"} :
                \A payload \in FinishPayloads(status) :
                   FinishHookRequest(p, path, TRUE, payload)
                   => (resp'[p] = InvalidStatus /\ pc'[p] = "idle"
                          /\ store' = store)]_vars

\* A finish webhook was answered 'Invalid status' for a path no record
\* exists for.
C12_Witness ==
    \E p \in Procs :
       /\ resp[p] = InvalidStatus
       /\ \E path \in Paths : find_by_path(path) = 0

----------------------------------------------------------------------------
(* Reads *)

\* What a read of a version in the given state must end in.
ReadOutcome(version) ==
    IF version.status = "PENDING" THEN UPLOAD_PENDING_ERROR
    ELSE IF version.status = "FAILED" THEN UPLOAD_FAILED_ERROR
    ELSE NoResponse

\* C13: get_version returns a version only when the version is COMPLETE; a
\* read that targets a PENDING version ends in 'File upload in progress'
\* and one that targets a FAILED version in 'File upload failed', whether
\* the version is numbered explicitly or is the latest, read with no
\* version parameter.
C13_OnlyComplete ==
    \A path \in Paths :
       find_by_path(path) # 0 =>
          LET versions == RecordOf(path).versions
          IN  /\ \A query \in VersionQueries :
                    get_version(path, query).err = NoResponse
                    => get_version(path, query).version.status = "COMPLETE"
              /\ \A k \in 1..Len(versions) :
                    get_version(path, VersionQuery(str(k))).err
                        = ReadOutcome(versions[k])
              /\ Len(versions) > 0 =>
                    get_version(path, NoVersionQuery).err
                        = ReadOutcome(versions[Len(versions)])

\* One read was refused because the upload was in progress, a later one
\* because it had failed, and the record now holds the FAILED version.
C13_Witness ==
    \E p, q \in Procs, path \in Paths :
       /\ resp[p] = UPLOAD_PENDING_ERROR
       /\ resp[q] = UPLOAD_FAILED_ERROR
       /\ find_by_path(path) # 0
       /\ Len(RecordOf(path).versions) > 0
       /\ Current(RecordOf(path)).status = "FAILED"

\* A path no record is kept for.
UnknownPath == "nowhere"

\* C14: the read of a PENDING version, numbered or latest, ends in the
\* 'File upload in progress' condition, and that condition differs from
\* the not-found condition a read ends in for an unknown record and for a
\* version number past the end of the record's list.
C14_InProgressDistinct ==
    \A path \in Paths :
       find_by_path(path) # 0 =>
          LET versions == RecordOf(path).versions
              past == get_version(path, VersionQuery(str(Len(versions) + 1)))
              unknown == get_version(UnknownPath, NoVersionQuery)
          IN  /\ past.err = HTTPError("NOT_FOUND")
              /\ unknown.err = HTTPError("NOT_FOUND")
              /\ \A k \in 1..Len(versions) :
                    versions[k].status = "PENDING" =>
                       LET got == get_version(path, VersionQuery(str(k)))
                       IN  /\ got.err.reason = "File upload in progress"
                           /\ got.err # past.err
                           /\ got.err # unknown.err
              /\ (Len(versions) > 0
                     /\ versions[Len(versions)].status = "PENDING") =>
                       LET got == get_version(path, NoVersionQuery)
                       IN  /\ got.err.reason = "File upload in progress"
                           /\ got.err # past.err
                           /\ got.err # unknown.err

\* While an upload is pending on the record, one read was refused as in
\* progress and another ended in not-found.
C14_Witness ==
    \E p, q \in Procs, path \in Paths :
       /\ resp[p] = UPLOAD_PENDING_ERROR
       /\ resp[q] = HTTPError("NOT_FOUND")
       /\ find_by_path(path) # 0
       /\ HasPending(RecordOf(path))

InvalidVersion == make_error("BAD_REQUEST", "Invalid version")

\* Version parameters that are no integer, and integers below 1.
NonIntegers == {<<>>, <<"x">>, <<"1", "x">>}
BelowOne == {<<"0">>, <<"-", "1">>}

\* C15: on a record with n versions, get_version_helper given a version
\* parameter that is no integer or an integer below 1 raises bad request
\* 'Invalid version', whatever n is (n = 0 included, so this comes
\* before the range check); given the integer k it returns (k,
\* versions[k-1]) when 1 <= k <= n and raises not-found when k > n.
C15_VersionParameter ==
    \A i \in 1..Len(store) :
       LET n == Len(store[i].versions)
       IN  /\ \A s \in NonIntegers \cup BelowOne :
                 get_version_helper(store[i], VersionQuery(s))
                    = Raised(InvalidVersion)
           /\ \A k \in 1..n :
                 get_version_helper(store[i], VersionQuery(str(k)))
                    = Returned(k, store[i].versions[k])
           /\ \A k \in (n + 1)..(MaxVersions + 1) \cup {99} :
                 get_version_helper(store[i], VersionQuery(str(k)))
                    = Raised(HTTPError("NOT_FOUND"))

\* On a record of two versions one read was refused for its version
\* parameter and another found no such version.
C15_Witness ==
    \E p, q \in Procs, path \in Paths :
       /\ resp[p] = InvalidVersion
       /\ resp[q] = HTTPError("NOT_FOUND")
       /\ find_by_path(path) # 0
       /\ Len(RecordOf(path).versions) = 2

\* C16: with no version parameter, get_version_helper on a record that
\* holds at least one version returns the one-based index len(versions)
\* together with the last version of the list, and whenever it returns,
\* the version returned is the one at the index reported.
C16_Latest ==
    \A i \in 1..Len(store) :
       LET versions == store[i].versions
           got == get_version_helper(store[i], NoVersionQuery)
       IN  /\ Len(versions) > 0 =>
                 got = Returned(Len(versions), versions[Len(versions)])
           /\ got.err = NoResponse =>
                 (got.idx \in 1..Len(versions)
                     /\ versions[got.idx] = got.version)

\* A read was served from a record whose latest version, the second, is
\* the only COMPLETE one.
C16_Witness ==
    \E p \in Procs, path \in Paths :
       /\ resp[p] = Served
       /\ find_by_path(path) # 0
       /\ Len(RecordOf(path).versions) = 2
       /\ RecordOf(path).versions[1].status = "FAILED"
       /\ RecordOf(path).versions[2].status = "COMPLETE"

----------------------------------------------------------------------------
(* Version history *)

\* C17: the step of a start hook that calls create_pending_version answers
\* {status: 'success'} exactly when the call appended a version; the record
\* is then the record as it was with one version added at the end of its
\* list, in state PENDING with the request's creator and token and with no
\* location or metadata, every earlier version and every other record
\* unchanged; when the step answers anything else the store is unchanged.
\* The first step of a start hook never answers success: no worker is
\* answered success in a step it begins idle.
C17_CreateAppendsOne ==
    [][\A p \in Procs :
          /\ StartCreateStep(p) =>
                LET i == find_by_path(local[p].path)
                    appended ==
                        Append(store[i].versions,
                               [status |-> "PENDING",
                                creator |-> local[p].user,
                                signature |-> local[p].upload_signature,
                                location |-> None, metadata |-> None])
                IN  IF resp'[p] = Success
                    THEN store' = [store EXCEPT ![i].versions = appended]
                    ELSE store' = store
          /\ (pc[p] = "idle" /\ resp'[p] = Success)
                => resp'[p] = resp[p]]_vars

\* A start hook succeeded on a record that already held a resolved version:
\* the record now holds that version followed by the PENDING one.
C17_Witness ==
    \E p \in Procs, path \in Paths :
       /\ resp[p] = Success
       /\ find_by_path(path) # 0
       /\ Len(RecordOf(path).versions) = 2
       /\ RecordOf(path).versions[1].status = "COMPLETE"
       /\ RecordOf(path).versions[2].status = "PENDING"

\* Worker p takes the second step of a delete request.
DeleteApplyStep(p) == pc[p] = "delete_apply" /\ pc'[p] = "idle"

\* C18: no step of a start hook, finish hook or delete removes a
\* record, shortens a record's version list or moves a version: every
\* version stays at its position with its creator and token, a resolved
\* version stays exactly as it is, and the step of a delete request that
\* soft-deletes the record leaves the record's version list as it was.
C18_HistoryRetained ==
    [][/\ Len(store') >= Len(store)
       /\ \A i \in 1..Len(store) :
             /\ store'[i].path = store[i].path
             /\ Len(store'[i].versions) >= Len(store[i].versions)
             /\ \A k \in 1..Len(store[i].versions) :
                   /\ store'[i].versions[k].creator
                         = store[i].versions[k].creator
                   /\ store'[i].versions[k].signature
                         = store[i].versions[k].signature
                   /\ store[i].versions[k].status # "PENDING"
                         => store'[i].versions[k] = store[i].versions[k]
       /\ \A p \in Procs :
             DeleteApplyStep(p) =>
                LET i == find_by_path(local[p].path)
                IN  store'[i].versions = store[i].versions]_vars

\* A delete succeeded on a record of two versions, which it still holds.
C18_Witness ==
    \E p \in Procs, path \in Paths :
       /\ resp[p] = Success
       /\ find_by_path(path) # 0
       /\ RecordOf(path).is_deleted
       /\ Len(RecordOf(path).versions) = 2

\* C19: a version in state PENDING is left exactly as it is by every step
\* except the second step of a finish hook on its path whose payload
\* carries the version's token; and while a record holds a PENDING
\* version, create_pending_version on it raises PathLockedError for every
\* creator and token, so no read, start hook, delete or finish hook with
\* another token releases the lock.
C19_PendingUntilFinished ==
    [][\A i \in 1..Len(store) :
          \A k \in 1..Len(store[i].versions) :
             store[i].versions[k].status = "PENDING" =>
                /\ \A creator \in Users, signature \in Tokens :
                      create_pending_version(store[i], creator, signature).err
                         = "PathLockedError"
                /\ \/ store'[i].versions[k] = store[i].versions[k]
                   \/ \E p \in Procs :
                         /\ FinishApplyStep(p)
                         /\ local[p].path = store[i].path
                         /\ local[p].payload.uploadSignature
                               = store[i].versions[k].signature
                         /\ resp'[p] = Success]_vars

\* A start hook was refused by the lock and a finish hook was refused for
\* its token, and the version they met is still PENDING.
C19_Witness ==
    \E p, q \in Procs, path \in Paths :
       /\ resp[p] = PathLocked
       /\ resp[q] = InvalidUploadSignature
       /\ find_by_path(path) # 0
       /\ HasPending(RecordOf(path))

\* The conditions a read may end in besides serving the version.
ReadConditions ==
    {HTTPError("NOT_FOUND"), UPLOAD_PENDING_ERROR, UPLOAD_FAILED_ERROR}

\* C20: in every reachable state a read with no version parameter ends in
\* a servable version, in not-found, in 'File upload in progress' or in
\* 'File upload failed', and no worker has answered a read with an
\* unhandled IndexError; a record that exists with no version included.
C20_ReadNeverUnhandled ==
    /\ \A path \in Paths :
          LET got == get_version(path, NoVersionQuery)
          IN  \/ got.err \in ReadConditions
              \/ got.err = NoResponse /\ got.version.status = "COMPLETE"
    /\ \A p \in Procs : resp[p] # Unhandled("IndexError")

----------------------------------------------------------------------------
(* Records *)

\* The records kept for a path.
RecordsOf(st, path) == {i \in 1..Len(st) : st[i].path = path}

\* Worker p takes the first step of a start hook as far as get_or_create.
StartBeginStep(p) == pc[p] = "idle" /\ pc'[p] = "start_create"

\* C21: every step leaves at most one FileRecord per path; the step of a
\* start hook that calls get_or_create leaves exactly one for its path,
\* and when the path already had a record the store is exactly as it was:
\* the existing record is returned with its version list untouched, no
\* fresh empty one is made.
C21_GetOrCreateIdempotent ==
    [][/\ \A path \in Paths : Cardinality(RecordsOf(store', path)) <= 1
       /\ \A p \in Procs :
             StartBeginStep(p) =>
                /\ Cardinality(RecordsOf(store', local'[p].path)) = 1
                /\ find_by_path(local'[p].path) # 0 => store' = store
                /\ find_by_path(local'[p].path) = 0 =>
                      store' = Append(store, EmptyRecord(local'[p].path))]_vars

\* Two start hooks for one path have both run get_or_create, the record
\* already holding a version, and the store holds that one record.
C21_Witness ==
    \E p, q \in Procs :
       /\ p # q
       /\ pc[p] = "start_create" /\ pc[q] = "start_create"
       /\ local[p].path = local[q].path
       /\ Len(store) = 1
       /\ Len(RecordOf(local[p].path).versions) >= 1

\* C22: in every reachable state a PENDING version of a record is the last
\* element of the record's version list, so the version the path lock is
\* held by is the current version, which a finish hook resolves.
C22_PendingIsLast ==
    \A i \in 1..Len(store) :
       \A k \in PendingIndices(store[i]) :
          /\ k = Len(store[i].versions)
          /\ Current(store[i]) = store[i].versions[k]

\* A finish hook holding the token of the pending version is about to be
\* applied to a record whose earlier version is resolved.
C22_Witness ==
    \E p \in Procs :
       /\ pc[p] = "finish_apply"
       /\ Len(RecordOf(local[p].path).versions) = 2
       /\ RecordOf(local[p].path).versions[1].status # "PENDING"
       /\ MatchesPending(RecordOf(local[p].path), local[p].payload)

----------------------------------------------------------------------------
(* Version states *)

\* The version carries a storage location and metadata; it carries none.
HasContent(version) ==
    version.location \in Locations /\ version.metadata \in Metadatas
NoContent(version) == version.location = None /\ version.metadata = None

\* C23: a version in state COMPLETE or FAILED is left exactly as it is by
\* every step, and after every step every version carries a storage
\* location and metadata if it is COMPLETE and neither if it is PENDING
\* or FAILED.
C23_Terminal ==
    [][\A i \in 1..Len(store') :
          \A k \in 1..Len(store'[i].versions) :
             /\ (i <= Len(store) /\ k <= Len(store[i].versions)
                    /\ store[i].versions[k].status \in {"COMPLETE", "FAILED"})
                   => store'[i].versions[k] = store[i].versions[k]
             /\ IF store'[i].versions[k].status = "COMPLETE"
                THEN HasContent(store'[i].versions[k])
                ELSE NoContent(store'[i].versions[k])]_vars

\* A finish hook was refused on a record whose current version is
\* COMPLETE, after an earlier upload to the record had failed.
C23_Witness ==
    \E p \in Procs, path \in Paths :
       /\ resp[p] = NoPendingUpload
       /\ find_by_path(path) # 0
       /\ Len(RecordOf(path).versions) = 2
       /\ RecordOf(path).versions[1].status = "FAILED"
       /\ RecordOf(path).versions[2].status = "COMPLETE"

\* The tokens a record's versions were created with.
UsedSignatures(record) ==
    {record.versions[k].signature : k \in 1..Len(record.versions)}

\* C24: when the second step of a finish hook answers success, the record's
\* pending version has become COMPLETE or FAILED and the record holds no
\* PENDING version, so that create_pending_version on it with any creator
\* and any token not used on the record raises nothing and appends the
\* next version, and the start hook answers success; and the second step
\* of a start hook on a record with no PENDING version and with a token
\* not used on it answers success.
C24_LockReleased ==
    [][\A p \in Procs :
          /\ (FinishApplyStep(p) /\ resp'[p] = Success) =>
                LET rec == store'[find_by_path(local[p].path)]
                IN  /\ ~HasPending(rec)
                    /\ Current(rec).status
                          = (IF local[p].payload.status = "success"
                             THEN "COMPLETE" ELSE "FAILED")
                    /\ \A creator \in Users,
                          signature \in Tokens \ UsedSignatures(rec) :
                          LET out == create_pending_version(rec, creator,
                                                            signature)
                          IN  /\ out.err = None
                              /\ start_hook_response(out.err) = Success
                              /\ Len(out.record.versions)
                                    = Len(rec.versions) + 1
          /\ (StartCreateStep(p)
                 /\ ~HasPending(RecordOf(local[p].path))
                 /\ local[p].upload_signature
                       \notin UsedSignatures(RecordOf(local[p].path)))
                => resp'[p] = Success]_vars

\* After an upload to the record failed, a start hook with a new token
\* succeeded: the record holds the FAILED version and the PENDING one.
C24_Witness ==
    \E p \in Procs, path \in Paths :
       /\ resp[p] = Success
       /\ find_by_path(path) # 0
       /\ Len(RecordOf(path).versions) = 2
       /\ RecordOf(path).versions[1].status = "FAILED"
       /\ RecordOf(path).versions[2].status = "PENDING"

----------------------------------------------------------------------------
(* Payload validation *)

\* C25: a verified start webhook whose payload lacks the user or the upload
\* signature, or names a user id no user has, is answered a bad request in
\* the step that takes it, and that step leaves the store as it was: no
\* record is created and no version appended.
C25_InvalidStartPayload ==
    [][\A p \in Procs :
          TakesRequest(p) =>
             \A path \in Paths, f \in InvalidStartPayloads :
                StartHookRequest(p, path, TRUE, f.user, f.upload_signature)
                => (resp'[p] = HTTPError("BAD_REQUEST") /\ pc'[p] = "idle"
                       /\ store' = store)]_vars

\* A start webhook was refused as a bad request and the path still has no
\* record.
C25_Witness ==
    \E p \in Procs :
       /\ resp[p] = HTTPError("BAD_REQUEST")
       /\ \E path \in Paths : find_by_path(path) = 0

\* C26: a verified finish webhook of status 'success' or 'error' for a path
\* that has no record is answered not-found in the step that takes it and
\* the store stays as it was; and the only step after which the store holds
\* a record more is the first step of a start hook.
C26_FinishCreatesNothing ==
    [][/\ \A p \in Procs :
             TakesRequest(p) =>
                \A path \in Paths :
                   find_by_path(path) = 0 =>
                      \A status \in {"success", "error"} :
                         \A payload \in FinishPayloads(status) :
                            FinishHookRequest(p, path, TRUE, payload)
                            => (resp'[p] = HTTPError("NOT_FOUND")
                                   /\ pc'[p] = "idle" /\ store' = store)
       /\ Len(store') # Len(store) => \E p \in Procs : StartBeginStep(p)]_vars

\* A finish webhook was answered not-found and the store holds no record.
C26_Witness ==
    \E p \in Procs :
       /\ resp[p] = HTTPError("NOT_FOUND")
       /\ store = <<>>

\* C27: a verified finish webhook of status 'success' or 'error' whose
\* payload lacks the upload signature, or for 'success' the location or the
\* metadata, is answered a bad request, the store staying as it was; it is
\* never answered with an unhandled error and leaves no COMPLETE version
\* without a location and metadata.
C27_MissingKeysBadRequest ==
    [][\A p \in Procs :
          (FinishApplyStep(p) /\ ~Carries(local[p].payload)) =>
             /\ resp'[p].code = "BAD_REQUEST"
             /\ resp'[p] # Unhandled("KeyError")
             /\ store' = store]_vars

----------------------------------------------------------------------------
(* Download counters *)

\* The one-based index of the version a read of `path` with `query`
\* targets, 0 when there is none: no record, no version, a version
\* parameter that is not the decimal of an index of the list.
TargetIndex(path, query) ==
    IF find_by_path(path) = 0 THEN 0
    ELSE LET n == Len(RecordOf(path).versions)
         IN  IF ~query.given THEN n
             ELSE IF \E k \in 1..n : query.str = str(k)
             THEN CHOOSE k \in 1..n : query.str = str(k)
             ELSE 0

RECURSIVE VersionDownloads(_, _, _)
VersionDownloads(c, path, n) ==
    IF n = 0 THEN 0
    ELSE c.version[<<path, n>>] + VersionDownloads(c, path, n - 1)

\* C28: a download request that targets a COMPLETE version adds one to the
\* file's counter and one to the counter of that version's one-based
\* index, changes no other counter and is served; a download request for a
\* path without a record, with an invalid or out-of-range version
\* parameter, or for a PENDING or FAILED version changes no counter and is
\* not served.  No other step changes a counter, and after every step the
\* file's counter is the sum of its versions' counters.
C28_DownloadCounters ==
    [][/\ \A p \in Procs :
             (TakesRequest(p) /\ pc'[p] = "idle" /\ store' = store) =>
                \A path \in Paths, query \in DownloadQueries :
                   (counters.file[path] < MaxDownloads
                       /\ DownloadRequest(p, path, query))
                   => LET idx == TargetIndex(path, query)
                      IN  IF idx # 0
                             /\ RecordOf(path).versions[idx].status
                                   = "COMPLETE"
                          THEN /\ resp'[p] = Served
                               /\ counters' =
                                     [counters EXCEPT
                                        !.file[path] = @ + 1,
                                        !.version[<<path, idx>>] = @ + 1]
                          ELSE /\ resp'[p] # Served
                               /\ counters' = counters
       /\ counters' # counters =>
             \E p \in Procs : pc[p] = "idle" /\ resp'[p] = Served
       /\ \A path \in Paths :
             counters'.file[path]
                = VersionDownloads(counters', path, MaxVersions)]_vars

\* Two downloads were counted, one of each of two versions of the file,
\* and a download of the second version was refused before it was COMPLETE.
C28_Witness ==
    \E p \in Procs, path \in Paths :
       /\ counters.file[path] = 2
       /\ counters.version[<<path, 1>>] = 1
       /\ counters.version[<<path, 2>>] = 1
       /\ resp[p] = UPLOAD_PENDING_ERROR

----------------------------------------------------------------------------
(* Sessions *)

\* Worker p runs before_request on the request it carries.
BeforeRequestStep(p) ==
    /\ request[p].stage = "before"
    /\ request'[p].stage # "before"

\* Worker p runs after_request and sends the response.
AfterRequestStep(p) ==
    /\ request[p].stage = "after"
    /\ request'[p] = NoRequest

\* The cookie of request r is absent or its signature does not verify.
NoValidCookie(r) ==
    \/ r.cookie = NoCookie
    \/ r.cookie.sig # hmac(SECRET_KEY, r.cookie.value)

\* C29: a request without an Authorization header is in its handler only
\* with a session registered for it.  With no cookie, or a cookie whose
\* signature does not verify, before_request answers a 307 redirect to the
\* request's path that sets a cookie holding the signed id of a session
\* that was not persisted before and is now, and the handler is skipped.
\* The retry that presents that cookie is not redirected again: its
\* before_request registers the persisted session of that id and passes it
\* to the handler, and every retry taken gets there.
C29_RedirectThenHandler ==
    /\ [](\A p \in Procs :
            (request[p].stage = "handler"
                /\ request[p].authorization = NoAuthorization)
            => sessions[p] # NoSession)
    /\ [][\A p \in Procs :
            (BeforeRequestStep(p)
                /\ request[p].authorization = NoAuthorization)
            => /\ (~request[p].retry /\ NoValidCookie(request[p])) =>
                     \E id \in SessionIds :
                        /\ id \notin DOMAIN session_db
                        /\ id \in DOMAIN session_db'
                        /\ sessions'[p]._id = id
                        /\ reply'[p] =
                             [code |-> TemporaryRedirect,
                              location |-> request[p].path,
                              set_cookie |-> sign(SECRET_KEY, id)]
                        /\ request'[p].stage = "after"
               /\ request[p].retry =>
                     /\ request[p].cookie.value \in DOMAIN session_db
                     /\ sessions'[p] =
                          Session(request[p].cookie.value,
                                  session_db[request[p].cookie.value])
                     /\ request'[p].stage = "handler"
                     /\ reply'[p].code # TemporaryRedirect
                     /\ session_db' = session_db]_vars
    /\ [][\A p \in Procs :
            (request[p] = NoRequest /\ request'[p] # NoRequest
                /\ request'[p].retry)
            => /\ reply[p].code = TemporaryRedirect
               /\ request'[p].path = reply[p].location
               /\ request'[p].cookie = reply[p].set_cookie
               /\ request'[p].authorization = NoAuthorization]_vars
    /\ \A p \in Procs, id \in SessionIds :
          (request[p].stage = "before" /\ request[p].retry
              /\ request[p].cookie = sign(SECRET_KEY, id))
          ~> (request[p].stage = "handler" /\ request[p].retry
                 /\ sessions[p]._id = id)

\* The retry of a redirected request is in its handler with the persisted
\* session whose signed id the redirect's cookie holds.
C29_Witness ==
    \E p \in Procs :
       /\ request[p].stage = "handler"
       /\ request[p].retry
       /\ sessions[p]._id = request[p].cookie.value
       /\ sessions[p]._id \in DOMAIN session_db
       /\ request[p].cookie = sign(SECRET_KEY, request[p].cookie.value)

\* C30: after_request on a request that carried an Authorization header
\* persists nothing: the persisted sessions are the same after it as
\* before, whether the API key is attached to a user, to a node, to
\* neither, or is unknown.
C30_ApiSessionNotPersisted ==
    [][\A p \in Procs :
          (AfterRequestStep(p)
              /\ request[p].authorization # NoAuthorization)
          => session_db' = session_db]_vars

\* Worker p runs create_session: in before_request, which answers with the
\* cookie set, or in a login handler.
CreateSessionStep(p) ==
    /\ request[p].stage \in {"before", "handler"}
    /\ request'[p].stage = "after"
    /\ reply'[p].set_cookie # NoCookie

\* C31: create_session, called while the request has a session, keeps that
\* session registered: its id stays (a session built without an id gets the
\* one it is saved under), its data are the old ones with the given data
\* merged over them, they are what the store holds under its id, no other
\* stored session changes, and the cookie is the signed id of that session.
\* Called while the request has none, it registers a session whose id no
\* stored session had.  No step ever replaces a registered session that has
\* an id by one of another id.
C31_SessionKept ==
    [][\A p \in Procs :
          /\ CreateSessionStep(p) =>
                LET old == sessions[p]
                    new == sessions'[p]
                IN  /\ new # NoSession
                    /\ new._id \in SessionIds
                    /\ reply'[p].set_cookie = sign(SECRET_KEY, new._id)
                    /\ new._id \in DOMAIN session_db'
                    /\ session_db'[new._id] = new.data
                    /\ \A id \in DOMAIN session_db \ {new._id} :
                          /\ id \in DOMAIN session_db'
                          /\ session_db'[id] = session_db[id]
                    /\ DOMAIN session_db' = DOMAIN session_db \cup {new._id}
                    /\ IF old # NoSession
                       THEN /\ old._id # NoId => new._id = old._id
                            /\ old._id = NoId =>
                                  new._id \notin DOMAIN session_db
                            /\ DOMAIN new.data =
                                  DOMAIN old.data \cup DOMAIN LoginData
                            /\ \A key \in DOMAIN new.data :
                                  new.data[key] =
                                     IF key \in DOMAIN LoginData
                                     THEN LoginData[key]
                                     ELSE old.data[key]
                       ELSE /\ new._id \notin DOMAIN session_db
                            /\ new.data = EmptyDict
          /\ (sessions[p] # NoSession /\ sessions'[p] # NoSession
                 /\ sessions[p]._id # NoId)
             => sessions'[p]._id = sessions[p]._id]_vars

\* A login handler called create_session on a request whose cookie named a
\* stored session: that session is still the one registered, now with the
\* login data, and the response's cookie holds its signed id.
C31_Witness ==
    \E p \in Procs :
       /\ request[p].stage = "after"
       /\ request[p].authorization = NoAuthorization
       /\ reply[p].code = OK
       /\ sessions[p] # NoSession
       /\ sessions[p]._id = request[p].cookie.value
       /\ reply[p].set_cookie = request[p].cookie
       /\ get(sessions[p].data, "auth_user_id") = "u1"
       /\ get(sessions[p].data, "url_previous") = "/prev"

----------------------------------------------------------------------------
(* Wiki *)

\* The keys of the wiki names: lower case, without surrounding blanks.
WikiKey(wname) ==
    IF wname \in {"home", "Home"} THEN "home" ELSE "page"

\* The versions kept under a key, none for a page that does not exist.
VersionsOf(pages, key) ==
    IF key \in DOMAIN pages THEN pages[key].versions ELSE <<>>

\* Worker p calls update_node_wiki and answers.
WikiApplyStep(p) ==
    /\ pc[p] = "wiki_update"
    /\ pc'[p] = "idle"

\* C32: an edit post whose content equals the newest version of the page
\* it names is answered 'unmodified' at once and leaves the pages and the
\* number of update_node_wiki calls as they were; a post with other
\* content, or for a page that does not exist, goes on to call
\* update_node_wiki.  That call is the only one of the request: it adds
\* one to the number of calls, appends the posted content as one new
\* version of that page and changes no other page, and the answer is
\* 'success'.  No other step calls update_node_wiki or changes a page.
C32_UpdateOnlyIfChanged ==
    [][/\ \A p \in Procs :
             /\ TakesRequest(p) =>
                   \A wname \in WikiNames, posted \in Contents :
                      WikiEditRequest(p, wname, posted) =>
                         LET old == VersionsOf(wiki_pages, WikiKey(wname))
                         IN  /\ wiki_pages' = wiki_pages
                             /\ wiki_calls' = wiki_calls
                             /\ IF old # <<>> /\ old[Len(old)] = posted
                                THEN /\ pc'[p] = "idle"
                                     /\ resp'[p].status = "unmodified"
                                     /\ resp'[p].code = "FOUND"
                                ELSE /\ pc'[p] = "wiki_update"
                                     /\ local'[p].content = posted
                                     /\ WikiKey(local'[p].wname)
                                           = WikiKey(wname)
             /\ WikiApplyStep(p) =>
                   LET key == WikiKey(local[p].wname)
                   IN  /\ wiki_calls' = wiki_calls + 1
                       /\ resp'[p].status = "success"
                       /\ resp'[p].code = "FOUND"
                       /\ DOMAIN wiki_pages' = DOMAIN wiki_pages \cup {key}
                       /\ wiki_pages'[key].versions =
                             Append(VersionsOf(wiki_pages, key),
                                    local[p].content)
                       /\ \A other \in DOMAIN wiki_pages \ {key} :
                             wiki_pages'[other] = wiki_pages[other]
       /\ (wiki_calls' # wiki_calls \/ wiki_pages' # wiki_pages) =>
             \E p \in Procs : WikiApplyStep(p)]_vars

\* A page was created by one post and changed by another, and a third post
\* of the content it then had was answered 'unmodified': two calls of
\* update_node_wiki for three posts.
C32_Witness ==
    \E p \in Procs :
       /\ resp[p].status = "unmodified"
       /\ "page" \in DOMAIN wiki_pages
       /\ Len(wiki_pages["page"].versions) = 2
       /\ wiki_pages["page"].versions[1] # wiki_pages["page"].versions[2]
       /\ wiki_calls = 2
====
